---- MODULE Spec2Model ----
(***************************************************************************)
(* Model of segmented_sieve_gaps.py: the flat sieve simple_sieve, the      *)
(* generator segmented_sieve with its pair callback, and the accumulator   *)
(* GapAnalyzer with its 50-digit Decimal arithmetic.                       *)
(***************************************************************************)
EXTENDS Integers, Sequences, FiniteSets

(***************************************************************************)
(* Bounds of the model.                                                    *)
(***************************************************************************)
MaxLimit == 30
MaxSeg == 3
BigSeg == 17
BigLimit == 350
MaxCalls == 21

(***************************************************************************)
(* Program constants.                                                      *)
(***************************************************************************)
Prec == 50
SampleCap == 20

(***************************************************************************)
(* Python's None and the values that may stand beside it.                  *)
(***************************************************************************)
None == <<>>
Some(n) == <<n>>
Val(x) == x[1]

Max(a, b) == IF a >= b THEN a ELSE b
Min(a, b) == IF a <= b THEN a ELSE b

(***************************************************************************)
(* Decimal numbers under getcontext().prec = 50.  A number is 0 or         *)
(* c * 10^e with c an integer of exactly Prec digits, kept as the sequence *)
(* of its digits, most significant first.  Python keeps several            *)
(* representations of one value (1.125 and 1.1250); every operation used   *)
(* here (times, divide, plus, ln, equality) depends on the value alone, so  *)
(* one normal form per value is kept.  All numbers that occur are >= 0.    *)
(***************************************************************************)
DecZero == [c |-> <<>>, e |-> 0]

\* The digit sequence ds (first digit non-zero) times 10^e, rounded to Prec
\* digits, ROUND_HALF_EVEN (the default rounding of the decimal context).
RoundDigits(ds, e) ==
  LET n == Len(ds) IN
  IF n <= Prec
  THEN [c |-> [k \in 1..Prec |-> IF k <= n THEN ds[k] ELSE 0] \o <<>>,
        e |-> e - (Prec - n)]
  ELSE
    LET first == ds[Prec + 1]
        restZero == \A k \in (Prec + 2)..n : ds[k] = 0
        up == \/ first > 5
              \/ first = 5 /\ ~restZero
              \/ first = 5 /\ restZero /\ ds[Prec] % 2 = 1
        notNine == {k \in 1..Prec : ds[k] # 9}
        e2 == e + (n - Prec)
    IN IF ~up THEN [c |-> [k \in 1..Prec |-> ds[k]] \o <<>>, e |-> e2]
       ELSE IF notNine = {}
       THEN [c |-> [k \in 1..Prec |-> IF k = 1 THEN 1 ELSE 0] \o <<>>, e |-> e2 + 1]
       ELSE LET last == CHOOSE k \in notNine : \A j \in notNine : j <= k
            IN [c |-> [k \in 1..Prec |-> IF k < last THEN ds[k]
                                          ELSE IF k = last THEN ds[k] + 1 ELSE 0]
                        \o <<>>,
                e |-> e2]

\* The digit sequence ds without its leading zeros.
StripZeros(ds) ==
  LET nz == {k \in 1..Len(ds) : ds[k] # 0} IN
  IF nz = {} THEN <<>>
  ELSE LET f == CHOOSE k \in nz : \A j \in nz : k <= j
       IN [k \in 1..(Len(ds) - f + 1) |-> ds[k + f - 1]] \o <<>>

\* Decimal(n) for an integer 0 <= n < 10^9.
IntDigits(n) == StripZeros([k \in 1..9 |-> (n \div (10 ^ (9 - k))) % 10])
DecFromInt(n) == IF n = 0 THEN DecZero ELSE RoundDigits(IntDigits(n), 0)

(***************************************************************************)
(* Long arithmetic on big-endian sequences of limbs, used to compute what  *)
(* the decimal library computes.  Carries are resolved by look-ahead       *)
(* rather than by a loop over the limbs.                                   *)
(***************************************************************************)
Base == 10 ^ 4

\* One step of carrying: every limb keeps its residue and takes the carry
\* of its right neighbour (the carry out of the first limb is zero in every
\* use).
Pass(v, base) ==
  LET n == Len(v)
  IN [s \in 1..n |-> (v[s] % base) + (IF s < n THEN v[s + 1] \div base ELSE 0)] \o <<>>

\* Limbs in 0..2*base-2 brought into 0..base-1: limb s takes a carry iff the
\* nearest limb to its right that is not base-1 is at least base.
Ripple(v, base) ==
  LET n == Len(v)
      cin(s) == \E j \in (s + 1)..n :
                   /\ v[j] >= base
                   /\ \A k \in (s + 1)..(j - 1) : v[k] = base - 1
  IN [s \in 1..n |-> (v[s] + (IF cin(s) THEN 1 ELSE 0)) % base] \o <<>>

\* Sum of a[i] * b[s - i] for i in lo..hi.
RECURSIVE SumProd(_, _, _, _, _)
SumProd(a, b, s, lo, hi) ==
  IF lo > hi THEN 0 ELSE a[lo] * b[s - lo] + SumProd(a, b, s, lo + 1, hi)

\* All 2n limbs of the product of two n-limb numbers (n <= 16, so that the
\* column sums stay below 2^31).
LimbProduct(a, b) ==
  LET n == Len(a)
      v == [s \in 1..(2 * n) |->
              IF s = 1 THEN 0 ELSE SumProd(a, b, s, Max(1, s - n), Min(n, s - 1))] \o <<>>
  IN Ripple(Pass(Pass(v, Base), Base), Base)

\* a + b for limb sequences of one length (no carry out of the first limb).
LimbAdd(a, b, base) == Ripple([s \in 1..Len(a) |-> a[s] + b[s]] \o <<>>, base)

\* a - b for limb sequences of one length, a >= b: limb s lends iff the
\* nearest non-zero difference to its right is negative.
LimbSub(a, b, base) ==
  LET n == Len(a)
      v == [s \in 1..n |-> a[s] - b[s]] \o <<>>
      lend(s) == \E j \in (s + 1)..n :
                    /\ v[j] < 0
                    /\ \A k \in (s + 1)..(j - 1) : v[k] = 0
  IN [s \in 1..n |-> (v[s] - (IF lend(s) THEN 1 ELSE 0)) % base] \o <<>>

\* Long division of a limb sequence by a small integer k (k * Base < 2^31):
\* the quotient's limbs followed by the remainder.
RECURSIVE DivSmall(_, _, _, _)
DivSmall(a, k, idx, rem) ==
  IF idx > Len(a) THEN <<rem>>
  ELSE <<(rem * Base + a[idx]) \div k>>
         \o DivSmall(a, k, idx + 1, (rem * Base + a[idx]) % k)

\* The digits of a limb sequence, four per limb.
LimbDigits(a) ==
  [k \in 1..(4 * Len(a)) |-> (a[(k + 3) \div 4] \div (10 ^ (3 - ((k - 1) % 4)))) % 10]
    \o <<>>

\* The limbs of a digit sequence whose length is a multiple of four.
DigitLimbs(ds) ==
  [j \in 1..(Len(ds) \div 4) |->
     1000 * ds[4 * j - 3] + 100 * ds[4 * j - 2] + 10 * ds[4 * j - 1] + ds[4 * j]]
    \o <<>>

\* A Prec-digit coefficient as limbs (two leading zeros make 52 digits).
CoefLimbs(c) == DigitLimbs(<<0, 0>> \o c)

\* x * y for Decimals: the exact product, rounded to Prec digits.
DecMul(x, y) ==
  IF x = DecZero \/ y = DecZero THEN DecZero
  ELSE RoundDigits(StripZeros(LimbDigits(LimbProduct(CoefLimbs(x.c), CoefLimbs(y.c)))),
                   x.e + y.e)

\* x + y for Decimals >= 0: the exact sum, rounded to Prec digits.
DecAdd(x, y) ==
  IF x = DecZero THEN y
  ELSE IF y = DecZero THEN x
  ELSE LET hi == IF x.e >= y.e THEN x ELSE y
           lo == IF x.e >= y.e THEN y ELSE x
           d == hi.e - lo.e
           n == Prec + d
           a == [k \in 1..(n + 1) |-> IF 2 <= k /\ k <= Prec + 1 THEN hi.c[k - 1] ELSE 0]
                  \o <<>>
           b == [k \in 1..(n + 1) |-> IF k >= d + 2 THEN lo.c[k - d - 1] ELSE 0] \o <<>>
       IN RoundDigits(StripZeros(LimbAdd(a, b, 10)), lo.e)

\* Decimal(q) / Decimal(d) for integers q >= d > 0 below 2^31 / Base: the
\* quotient to 56 places and a last digit that tells whether anything is
\* left, rounded to Prec digits.
DecDivInt(q, d) ==
  LET num == <<q \div (Base * Base), (q \div Base) % Base, q % Base>>
               \o [k \in 1..14 |-> 0]
      qr == DivSmall(num, d, 1, 0)
      quot == SubSeq(qr, 1, 17)
      sticky == IF qr[18] = 0 THEN 0 ELSE 1
  IN RoundDigits(StripZeros(LimbDigits(quot) \o <<sticky>>), 0 - 57)

(***************************************************************************)
(* Decimal.ln(), which the library rounds correctly, for 1 <= x <= 4/3     *)
(* (every contribution p^2/(p^2-1) with p >= 2 lies there).  With          *)
(* y = x - 1 the value is y - y^2/2 + y^3/3 - ..., summed in fixed point   *)
(* with FxDigits places (14 more than are kept) and then rounded.          *)
(***************************************************************************)
FxDigits == Prec + 14

FxHead(a) == SubSeq(a, 1, FxDigits \div 4)
FxZero == [k \in 1..(FxDigits \div 4) |-> 0] \o <<>>
FxMul(a, b) == FxHead(LimbProduct(a, b))

RECURSIVE FxPow(_, _)
FxPow(y, k) ==
  IF k = 1 THEN y
  ELSE CHOOSE r \in {IF k % 2 = 0 THEN sq ELSE FxMul(sq, y) :
                      sq \in {FxMul(h, h) : h \in {FxPow(y, k \div 2)}}} : TRUE

\* y^k / k
LnTerm(y, k) == CHOOSE r \in {FxHead(DivSmall(p, k, 1, 0)) : p \in {FxPow(y, k)}} : TRUE

\* Sum of y^k / k over k = 2j - par, j in a..b.
RECURSIVE LnSum(_, _, _, _)
LnSum(y, a, b, par) ==
  IF a > b THEN FxZero
  ELSE IF a = b THEN LnTerm(y, 2 * a - par)
  ELSE CHOOSE r \in {LimbAdd(u, v, Base) :
                      u \in {LnSum(y, a, (a + b) \div 2, par)},
                      v \in {LnSum(y, (a + b) \div 2 + 1, b, par)}} : TRUE

\* How many pairs of terms are not yet zero in fixed point: y < 10^-z when
\* its first z digits are zero, and y <= 1/3 < 10^-(64/135) otherwise.
LnPairs(yd) ==
  LET nz == {k \in 1..FxDigits : yd[k] # 0}
      z == IF nz = {} THEN FxDigits
           ELSE (CHOOSE k \in nz : \A j \in nz : k <= j) - 1
  IN IF z = 0 THEN 68 ELSE (FxDigits \div z + 2) \div 2

DecLn(x) ==
  LET yd == [k \in 1..FxDigits |-> IF k < Prec THEN x.c[k + 1] ELSE 0] \o <<>>
      y == DigitLimbs(yd)
      m == LnPairs(yd)
      ds == StripZeros(LimbDigits(LimbSub(LnSum(y, 1, m, 1), LnSum(y, 1, m, 0), Base)))
  IN IF ds = <<>> THEN DecZero ELSE RoundDigits(ds, 0 - FxDigits)

(***************************************************************************)
(* simple_sieve                                                            *)
(***************************************************************************)
\* int(math.sqrt(n)) for n >= 0
ISqrt(n) == CHOOSE k \in 0..n : k * k <= n /\ (k + 1) * (k + 1) > n

\* The members of a finite set of integers, ascending.
Ascending(S) ==
  [k \in 1..Cardinality(S) |-> CHOOSE n \in S : Cardinality({m \in S : m < n}) = k - 1]

\* A Python list is kept as a sequence: list[k] is seq[k + 1].
\* The inner loop: is_prime[j] = False for j in range(i * i, limit + 1, i)
SieveMark(is_prime, i, limit) ==
  [n1 \in 1..(limit + 1) |->
     IF n1 - 1 >= i * i /\ (n1 - 1 - i * i) % i = 0 THEN FALSE ELSE is_prime[n1]] \o <<>>

\* The outer loop from i on.
RECURSIVE SieveLoop(_, _, _)
SieveLoop(is_prime, i, limit) ==
  IF i > ISqrt(limit) THEN is_prime
  ELSE CHOOSE r \in {SieveLoop(marked, i + 1, limit) :
                      marked \in {IF is_prime[i + 1] THEN SieveMark(is_prime, i, limit)
                                  ELSE is_prime}} : TRUE

simple_sieve(limit) ==
  IF limit < 2 THEN <<>>
  ELSE LET is_prime == SieveLoop([n1 \in 1..(limit + 1) |-> n1 - 1 >= 2] \o <<>>, 2, limit)
       IN Ascending({n \in 0..limit : is_prime[n + 1]})

(***************************************************************************)
(* GapAnalyzer                                                             *)
(***************************************************************************)
\* GapAnalyzer.__init__
NewAnalyzer == [gap_data |-> <<>>, total_primes |-> 0, last_prime |-> None]

\* The default factory of gap_data.
DefaultEntry ==
  [count |-> 0, product |-> DecFromInt(1), log_product |-> DecZero, primes |-> <<>>]

\* p_squared / (p_squared - Decimal(1))
Contribution(prime) == DecDivInt(prime * prime, prime * prime - 1)

\* contribution.ln(): the values for the primes of the model's range are
\* computed once and kept in a table (entry p for the prime p).
LnTable ==
  [p \in 1..Max(MaxLimit, BigLimit) |->
     IF p > 1 /\ (\A d \in 2..(p - 1) : p % d # 0)
     THEN DecLn(Contribution(p))
     ELSE DecZero] \o <<>>

LnContribution(prime) ==
  IF prime \in 1..Len(LnTable) /\ LnTable[prime] # DecZero
  THEN LnTable[prime]
  ELSE DecLn(Contribution(prime))

\* self.gap_data[gap], which creates the entry when the key is new.
Entry(gap_data, gap) == IF gap \in DOMAIN gap_data THEN gap_data[gap] ELSE DefaultEntry

\* The update of one gap family: count, product, log_product, then the
\* first 20 primes.
UpdateEntry_NextContribution(entry, prime, next_prime) ==
  [count |-> entry.count + 1,
   product |-> DecMul(entry.product, Contribution(next_prime)),
   log_product |-> DecAdd(entry.log_product, LnContribution(prime)),
   primes |-> IF Len(entry.primes) < SampleCap THEN Append(entry.primes, prime)
              ELSE entry.primes]

UpdateEntry_CapOff(entry, prime, next_prime) ==
  [count |-> entry.count + 1,
   product |-> DecMul(entry.product, Contribution(prime)),
   log_product |-> DecAdd(entry.log_product, LnContribution(prime)),
   primes |-> IF Len(entry.primes) <= SampleCap THEN Append(entry.primes, prime)
              ELSE entry.primes]

UpdateEntry(entry, prime, next_prime) ==
  [count |-> entry.count + 1,
   product |-> DecMul(entry.product, Contribution(prime)),
   log_product |-> DecAdd(entry.log_product, LnContribution(prime)),
   primes |-> IF Len(entry.primes) < SampleCap THEN Append(entry.primes, prime)
              ELSE entry.primes]

process_prime_SkipSentinel(self, prime, next_prime) ==
  IF next_prime = None
  THEN self
  ELSE LET gap == Val(next_prime) - prime
           new == UpdateEntry(Entry(self.gap_data, gap), prime, Val(next_prime))
       IN CHOOSE r \in
            {[self EXCEPT
                !.total_primes = self.total_primes + 1,
                !.gap_data = [g \in DOMAIN self.gap_data \cup {gap} |->
                                IF g = gap THEN e ELSE self.gap_data[g]]]
               : e \in {new}} : TRUE

\* GapAnalyzer.process_prime: self after the call (prime * prime > 1).
process_prime(self, prime, next_prime) ==
  IF next_prime = None
  THEN [self EXCEPT !.total_primes = self.total_primes + 1]
  ELSE LET gap == Val(next_prime) - prime
           new == UpdateEntry(Entry(self.gap_data, gap), prime, Val(next_prime))
       IN CHOOSE r \in
            {[self EXCEPT
                !.total_primes = self.total_primes + 1,
                !.gap_data = [g \in DOMAIN self.gap_data \cup {gap} |->
                                IF g = gap THEN e ELSE self.gap_data[g]]]
               : e \in {new}} : TRUE

(***************************************************************************)
(* segmented_sieve, a generator: pc is the place where it stands.          *)
(***************************************************************************)
VARIABLES
  limit,          \* argument limit
  segment_size,   \* argument segment_size
  callback,       \* whether a callback is given (analyzer.process_prime)
  pc,             \* "start", "loop", "scan", "yielded", "done", "raised", "api"
  small_primes, low, high, last_prime, segment, i,   \* the generator's locals
  analyzer,       \* the GapAnalyzer the callback feeds
  yielded,        \* the values the consumer has pulled, in order
  calls,          \* the pairs the callback has been called with, in order
  seen,           \* per gap, the primes process_prime was given with it
  prev,           \* what the previous run over the same limit ended with
  fed             \* the last prime handed to process_prime directly

vars == <<limit, segment_size, callback, pc, small_primes, low, high, last_prime,
          segment, i, analyzer, yielded, calls, seen, prev, fed>>

genvars == <<small_primes, low, high, last_prime, segment, i>>

Limits == ((0 - 1)..MaxLimit) \cup {BigLimit}
SegmentSizes == ((0 - 1)..MaxSeg) \cup {BigSeg}

\* len(segment); a segment is indexed from 0.
PyLen(arr) == Cardinality(DOMAIN arr)

FirstMultiple_NoSquare(p, lo) == ((lo + p - 1) \div p) * p

\* start = max(p * p, ((low + p - 1) // p) * p)
FirstMultiple(p, lo) == Max(p * p, ((lo + p - 1) \div p) * p)

\* [True] * (high - low + 1) with the multiples of every small prime marked
\* False from its start on (the marks of different primes do not depend on
\* each other).
SievedSegment(primes, lo, hi) ==
  [k \in 0..(hi - lo) |->
     ~ \E n \in 1..Len(primes) :
         /\ lo + k >= FirstMultiple(primes[n], lo)
         /\ (lo + k - FirstMultiple(primes[n], lo)) % primes[n] = 0]

\* What an observer of process_prime notes down.
Observe(s, prime, next_prime) ==
  IF next_prime = None THEN s
  ELSE LET gap == Val(next_prime) - prime
       IN [g \in DOMAIN s \cup {gap} |->
             IF g = gap THEN Append(IF g \in DOMAIN s THEN s[g] ELSE <<>>, prime)
             ELSE s[g]]

\* callback(prime, next_prime)
Notify(prime, next_prime) ==
  /\ analyzer' = process_prime(analyzer, prime, next_prime)
  /\ calls' = Append(calls, <<prime, next_prime>>)
  /\ seen' = Observe(seen, prime, next_prime)

Init ==
  /\ limit \in Limits
  /\ segment_size \in SegmentSizes
  /\ callback \in BOOLEAN
  /\ pc = "start"
  /\ small_primes = <<>> /\ low = 0 /\ high = 0 /\ last_prime = None
  /\ segment = <<>> /\ i = 0
  /\ analyzer = NewAnalyzer
  /\ yielded = <<>> /\ calls = <<>> /\ seen = <<>>
  /\ prev = None
  /\ fed = 0

\* Lines 43-51, run by the first pull.  math.sqrt raises ValueError for a
\* negative limit.
Start ==
  /\ pc = "start"
  /\ IF limit < 0
     THEN /\ pc' = "raised"
          /\ UNCHANGED genvars
     ELSE /\ small_primes' = simple_sieve(ISqrt(limit) + 1)
          /\ low' = 0
          /\ high' = segment_size
          /\ last_prime' = None
          /\ pc' = "loop"
          /\ UNCHANGED <<segment, i>>
  /\ UNCHANGED <<limit, segment_size, callback, analyzer, yielded, calls, seen, prev, fed>>

\* Lines 53-66: the loop test holds; clip high, build and mark the segment.
SieveSegment ==
  /\ pc = "loop"
  /\ low <= limit
  /\ high' = IF high > limit THEN limit ELSE high
  /\ segment' = SievedSegment(small_primes, low, high')
  /\ i' = 0
  /\ pc' = "scan"
  /\ UNCHANGED <<limit, segment_size, callback, small_primes, low, last_prime,
                 analyzer, yielded, calls, seen, prev, fed>>

ScanStep_AboveTwo ==
  /\ pc = "scan"
  /\ i < PyLen(segment)
  /\ IF segment[i] /\ low + i > 2
     THEN /\ IF callback /\ last_prime # None
             THEN Notify(Val(last_prime), Some(low + i))
             ELSE UNCHANGED <<analyzer, calls, seen>>
          /\ last_prime' = Some(low + i)
          /\ yielded' = Append(yielded, low + i)
          /\ pc' = "yielded"
          /\ i' = i
     ELSE /\ i' = i + 1
          /\ UNCHANGED <<pc, last_prime, yielded, analyzer, calls, seen>>
  /\ UNCHANGED <<limit, segment_size, callback, small_primes, low, high, segment,
                 prev, fed>>

ScanStep_LastFirst ==
  /\ pc = "scan"
  /\ i < PyLen(segment)
  /\ IF segment[i] /\ low + i >= 2
     THEN /\ last_prime' = Some(low + i)
          /\ IF callback
             THEN Notify(low + i, Some(low + i))
             ELSE UNCHANGED <<analyzer, calls, seen>>
          /\ yielded' = Append(yielded, low + i)
          /\ pc' = "yielded"
          /\ i' = i
     ELSE /\ i' = i + 1
          /\ UNCHANGED <<pc, last_prime, yielded, analyzer, calls, seen>>
  /\ UNCHANGED <<limit, segment_size, callback, small_primes, low, high, segment,
                 prev, fed>>

\* Lines 69-77: one round of the scan; a prime is reported to the callback
\* beside its predecessor and then yielded.
ScanStep ==
  /\ pc = "scan"
  /\ i < PyLen(segment)
  /\ IF segment[i] /\ low + i >= 2
     THEN /\ IF callback /\ last_prime # None
             THEN Notify(Val(last_prime), Some(low + i))
             ELSE UNCHANGED <<analyzer, calls, seen>>
          /\ last_prime' = Some(low + i)
          /\ yielded' = Append(yielded, low + i)
          /\ pc' = "yielded"
          /\ i' = i
     ELSE /\ i' = i + 1
          /\ UNCHANGED <<pc, last_prime, yielded, analyzer, calls, seen>>
  /\ UNCHANGED <<limit, segment_size, callback, small_primes, low, high, segment,
                 prev, fed>>

\* The consumer pulls again: the scan goes on behind the yield.
Resume ==
  /\ pc = "yielded"
  /\ pc' = "scan"
  /\ i' = i + 1
  /\ UNCHANGED <<limit, segment_size, callback, small_primes, low, high, last_prime,
                 segment, analyzer, yielded, calls, seen, prev, fed>>

NextSegment_ForgetLast ==
  /\ pc = "scan"
  /\ i >= PyLen(segment)
  /\ low' = high + 1
  /\ high' = high + 1 + segment_size
  /\ last_prime' = None
  /\ pc' = "loop"
  /\ UNCHANGED <<limit, segment_size, callback, small_primes, segment, i,
                 analyzer, yielded, calls, seen, prev, fed>>

\* Lines 80-81: the scan is over; move to the next segment.
NextSegment ==
  /\ pc = "scan"
  /\ i >= PyLen(segment)
  /\ low' = high + 1
  /\ high' = high + 1 + segment_size
  /\ pc' = "loop"
  /\ UNCHANGED <<limit, segment_size, callback, small_primes, last_prime, segment, i,
                 analyzer, yielded, calls, seen, prev, fed>>

Exhaust_NoSentinel ==
  /\ pc = "loop"
  /\ low > limit
  /\ pc' = "done"
  /\ UNCHANGED <<limit, segment_size, callback, genvars, analyzer, calls, seen,
                 yielded, prev, fed>>

\* Lines 84-85: the loop test fails; the final prime goes to the callback
\* with None and the generator is exhausted.
Exhaust ==
  /\ pc = "loop"
  /\ low > limit
  /\ IF callback /\ last_prime # None
     THEN Notify(Val(last_prime), None)
     ELSE UNCHANGED <<analyzer, calls, seen>>
  /\ pc' = "done"
  /\ UNCHANGED <<limit, segment_size, callback, genvars, yielded, prev, fed>>

\* A second run over the same limit with another segment size and a fresh
\* analyzer; what the finished run ended with is kept for comparison.
Rerun ==
  /\ pc = "done"
  /\ \E s \in SegmentSizes \ {segment_size} : segment_size' = s
  /\ prev' = Some([segment_size |-> segment_size, calls |-> calls,
                   analyzer |-> analyzer, yielded |-> yielded])
  /\ pc' = "start"
  /\ small_primes' = <<>> /\ low' = 0 /\ high' = 0 /\ last_prime' = None
  /\ segment' = <<>> /\ i' = 0
  /\ analyzer' = NewAnalyzer
  /\ yielded' = <<>> /\ calls' = <<>> /\ seen' = <<>>
  /\ UNCHANGED <<limit, callback, fed>>

Next ==
  \/ Start
  \/ SieveSegment
  \/ ScanStep
  \/ Resume
  \/ NextSegment
  \/ Exhaust
  \/ Rerun

Spec == Init /\ [][Next]_vars

(***************************************************************************)
(* The accumulator driven directly: process_prime called with pairs of the *)
(* caller's choosing, the primes of successive calls not decreasing.       *)
(***************************************************************************)
AccPairs == {<<3, Some(5)>>, <<5, Some(7)>>, <<5, Some(3)>>, <<5, None>>}

InitAcc ==
  /\ limit = 0 /\ segment_size = 1 /\ callback = TRUE
  /\ pc = "api"
  /\ small_primes = <<>> /\ low = 0 /\ high = 0 /\ last_prime = None
  /\ segment = <<>> /\ i = 0
  /\ analyzer = NewAnalyzer
  /\ yielded = <<>> /\ calls = <<>> /\ seen = <<>>
  /\ prev = None
  /\ fed = 0

\* analyzer.process_prime(prime, next_prime)
AccCall ==
  /\ pc = "api"
  /\ analyzer.total_primes < MaxCalls
  /\ \E pr \in AccPairs :
       /\ pr[1] >= fed
       /\ fed' = pr[1]
       /\ analyzer' = process_prime(analyzer, pr[1], pr[2])
       /\ seen' = Observe(seen, pr[1], pr[2])
  /\ UNCHANGED <<limit, segment_size, callback, pc, genvars, yielded, calls, prev>>

NextAcc == AccCall

SpecAcc == InitAcc /\ [][NextAcc]_vars

(***************************************************************************)
(* What the properties below are stated with.                              *)
(***************************************************************************)
IsPrime(n) == n >= 2 /\ \A d \in 2..(n - 1) : n % d # 0

PrimesUpTo(n) == {p \in 2..n : IsPrime(p)}

\* The least prime above p, where there is one up to n.
HasNext(p, n) == \E q \in (p + 1)..n : IsPrime(q)
NextPrime(p, n) == CHOOSE q \in (p + 1)..n : IsPrime(q) /\ \A r \in (p + 1)..(q - 1) : ~ IsPrime(r)

\* The primes up to n that are followed, up to n, by a prime g further on.
WithGap(g, n) == {p \in PrimesUpTo(n) : HasNext(p, n) /\ NextPrime(p, n) - p = g}

Increasing(seq) == \A k \in 1..(Len(seq) - 1) : seq[k] < seq[k + 1]

RECURSIVE SumCounts(_, _)
SumCounts(gap_data, gaps) ==
  IF gaps = {} THEN 0
  ELSE LET g == CHOOSE x \in gaps : TRUE
       IN gap_data[g].count + SumCounts(gap_data, gaps \ {g})

\* The product of p^2 / (p^2 - 1) over the first n members of a list, taken
\* in the order of the list from Decimal(1) on.
RECURSIVE LiteralProduct(_, _)
LiteralProduct(ps, n) ==
  IF n = 0 THEN DecFromInt(1)
  ELSE CHOOSE r \in {DecMul(acc, Contribution(ps[n])) : acc \in {LiteralProduct(ps, n - 1)}} : TRUE

\* The calls a run owes to the primes ys it has yielded.
PairCalls(ys, finished) ==
  [k \in 1..(IF finished THEN Len(ys) ELSE Len(ys) - 1) |->
     <<ys[k], IF k < Len(ys) THEN Some(ys[k + 1]) ELSE None>>]

Finished == pc = "done"

\* C1: for limit >= 0 and segment_size > 0 the values yielded are strictly
\* increasing, and a run pulled to exhaustion has yielded exactly the primes
\* of [2, limit], the list simple_sieve(limit); nothing for limit < 2.
C1_StreamIsFlatSieve ==
  (limit >= 0 /\ segment_size > 0) =>
    /\ Increasing(yielded)
    /\ Finished =>
         /\ yielded = simple_sieve(limit)
         /\ {yielded[k] : k \in 1..Len(yielded)} = PrimesUpTo(limit)
         /\ (limit < 2 => yielded = <<>>)

C1_Witness ==
  /\ Finished /\ limit = BigLimit /\ segment_size = BigSeg
  /\ Len(yielded) > SampleCap
  /\ yielded = simple_sieve(limit)

\* C2: two finished runs over one limit with different positive segment
\* sizes, each feeding a GapAnalyzer, end with the same total_primes, the
\* same gap_data (keys, count, product, log_product, samples) and the same
\* sequence of callback pairs.
C2_SegmentSizeInvariance ==
  (Finished /\ callback /\ prev # None /\ segment_size > 0
     /\ Val(prev).segment_size > 0) =>
    /\ Val(prev).analyzer.total_primes = analyzer.total_primes
    /\ Val(prev).analyzer.gap_data = analyzer.gap_data
    /\ Val(prev).calls = calls

C2_Witness ==
  /\ Finished /\ callback /\ prev # None /\ limit = BigLimit
  /\ segment_size = 1 /\ Val(prev).segment_size = BigSeg
  /\ Cardinality(DOMAIN analyzer.gap_data) > 3
  /\ Val(prev).analyzer = analyzer

\* C3 as stated: after a run pulled to exhaustion with process_prime as the
\* callback, the counts of all gap families sum to total_primes - 1, for
\* every limit.
C3_SumIsTotalMinusOne ==
  (Finished /\ callback) =>
    SumCounts(analyzer.gap_data, DOMAIN analyzer.gap_data) = analyzer.total_primes - 1

\* C3 amended: the counts sum to total_primes - 1 when the run yielded a
\* prime; when it yielded none, total_primes and the sum are both 0.
C3_SumIsTotalMinusOneIfAny ==
  (Finished /\ callback) =>
    IF yielded # <<>>
    THEN SumCounts(analyzer.gap_data, DOMAIN analyzer.gap_data) = analyzer.total_primes - 1
    ELSE /\ analyzer.total_primes = 0
         /\ SumCounts(analyzer.gap_data, DOMAIN analyzer.gap_data) = 0

C3_Witness ==
  /\ Finished /\ callback /\ limit = MaxLimit
  /\ analyzer.total_primes = Len(yielded) /\ Len(yielded) > 3
  /\ SumCounts(analyzer.gap_data, DOMAIN analyzer.gap_data) = Len(yielded) - 1

\* C4: after a complete run over [0, limit], total_primes is the number of
\* primes in [2, limit]; there is a family for exactly the gaps that occur
\* between a prime and the next prime up to limit, and its count is the
\* number of such primes (limit 10: family 1 has count 1, family 2 has
\* count 2, total 4).
C4_CountsAreGapCounts ==
  (Finished /\ callback /\ limit >= 0) =>
    /\ analyzer.total_primes = Cardinality(PrimesUpTo(limit))
    /\ DOMAIN analyzer.gap_data = {g \in 1..limit : WithGap(g, limit) # {}}
    /\ \A g \in DOMAIN analyzer.gap_data :
         analyzer.gap_data[g].count = Cardinality(WithGap(g, limit))
    /\ limit = 10 =>
         /\ analyzer.total_primes = 4
         /\ DOMAIN analyzer.gap_data = {1, 2}
         /\ analyzer.gap_data[1].count = 1
         /\ analyzer.gap_data[2].count = 2

C4_Witness ==
  /\ Finished /\ callback /\ limit = 10 /\ segment_size = MaxSeg
  /\ analyzer.total_primes = 4
  /\ analyzer.gap_data[2].count = 2

\* C5: with a callback, the calls made so far are one per adjacent pair of
\* yielded primes, in order, each made when the later prime is found; a
\* finished run has added exactly one call (last prime, None), as the last
\* call, and none when no prime was yielded.  Without a callback no call.
C5_OneCallPerPrime ==
  /\ callback => calls = PairCalls(yielded, Finished)
  /\ ~ callback => calls = <<>>

C5_Witness ==
  /\ Finished /\ callback /\ Len(yielded) > 2
  /\ Len(calls) = Len(yielded)
  /\ calls[Len(calls)] = <<yielded[Len(yielded)], None>>

\* C6: with segment_size <= 0 (and limit >= 0) the generator fails before a
\* segment is sieved, a prime is yielded or the callback is called.
C6_FailsFast ==
  (segment_size <= 0 /\ limit >= 0) =>
    /\ pc \notin {"scan", "yielded", "done"}
    /\ yielded = <<>>
    /\ calls = <<>>

\* C7: process_prime never leaves a gap family with a key that is zero or
\* negative: every key of gap_data is a positive integer.
C7_KeysPositive == \A g \in DOMAIN analyzer.gap_data : g > 0

\* C8: at the end of a run, a family that has received at most 20 primes has
\* as its product the product of p^2 / (p^2 - 1) over the primes of its
\* sample list, and they are all the primes it has received; a family is
\* created with product 1.
C8_ProductOverSamples ==
  (Finished /\ callback) =>
       \A g \in DOMAIN analyzer.gap_data :
         LET e == analyzer.gap_data[g]
         IN e.count <= SampleCap =>
              /\ e.primes = seen[g]
              /\ e.product = LiteralProduct(e.primes, Len(e.primes))

C8_Witness ==
  /\ Finished /\ callback /\ limit = MaxLimit
  /\ 2 \in DOMAIN analyzer.gap_data
  /\ analyzer.gap_data[2].primes = <<3, 5, 11, 17>>
  /\ analyzer.gap_data[2].product = LiteralProduct(<<3, 5, 11, 17>>, 4)
  /\ analyzer.gap_data[2].product # DecFromInt(1)

\* C9: after any calls of process_prime, a family's sample list has
\* min(count, 20) entries, the first primes given with that gap in the order
\* given, and count is the number of primes given with it; a call leaves a
\* list of 20 as it is, raises no count by more than one and removes no
\* family.
C9_SamplesInv ==
  /\ DOMAIN analyzer.gap_data = DOMAIN seen
  /\ \A g \in DOMAIN analyzer.gap_data :
       LET e == analyzer.gap_data[g]
       IN /\ e.count = Len(seen[g])
          /\ Len(e.primes) = Min(e.count, SampleCap)
          /\ e.primes = SubSeq(seen[g], 1, Min(e.count, SampleCap))

C9_SamplesStep ==
  \A g \in DOMAIN analyzer.gap_data :
    /\ g \in DOMAIN analyzer'.gap_data
    /\ analyzer'.gap_data[g].count \in
         {analyzer.gap_data[g].count, analyzer.gap_data[g].count + 1}
    /\ Len(analyzer.gap_data[g].primes) = SampleCap =>
         analyzer'.gap_data[g].primes = analyzer.gap_data[g].primes

C9_SampleLists == [] C9_SamplesInv /\ [][C9_SamplesStep]_vars

C9_Witness ==
  /\ pc = "api"
  /\ 2 \in DOMAIN analyzer.gap_data
  /\ analyzer.gap_data[2].count = SampleCap + 1
  /\ Len(analyzer.gap_data[2].primes) = SampleCap
  /\ analyzer.gap_data[2].primes[1] = 3
  /\ analyzer.gap_data[2].primes[SampleCap] = 5

\* C10: where the generator stands suspended behind its k-th yield, the
\* callback has been called k - 1 times, the latest call with (previous
\* prime, this prime), never with None, and total_primes is k - 1.
C10_CallbackLagsYield ==
  (pc = "yielded" /\ callback) =>
    LET k == Len(yielded)
    IN /\ Len(calls) = k - 1
       /\ k > 1 => calls[k - 1] = <<yielded[k - 1], Some(yielded[k])>>
       /\ \A j \in 1..Len(calls) : calls[j][2] # None
       /\ analyzer.total_primes = k - 1

C10_Witness ==
  /\ pc = "yielded" /\ callback /\ Len(yielded) = 3
  /\ calls = <<<<2, Some(3)>>, <<3, Some(5)>>>>
  /\ analyzer.total_primes = 2

====
